---- MODULE Spec2Model ----
(***************************************************************************)
(* Model of HelenVe/SmartEnergyMeter: the Tibber GraphQL client            *)
(* (src/src/get_api_data.py) and the Open-Meteo client                     *)
(* (src/src/get_weather_api_data.py).                                      *)
(*                                                                         *)
(* JSON / Python values are records tagged by a "kind" field:              *)
(*   [kind |-> "None"]                  JSON null, Python None             *)
(*   [kind |-> "missing"]               the key is not in the parent dict  *)
(*   [kind |-> "str", s |-> ..]         a string                           *)
(*   [kind |-> "num", n |-> ..]         a number                           *)
(*   [kind |-> "list", items |-> <<>>]  a list                             *)
(*   [kind |-> "dict", k1 |-> .., ..]   a dict; absent keys are "missing"  *)
(*   [kind |-> "tuple", ..]             the pair returned by get_home_id   *)
(*   [kind |-> "DataFrame", rows |-> <<>>]  a pandas table                 *)
(* A call evaluates to [exc, ret, sent]: the exception that left the       *)
(* function ("none" when it returned), the returned value, and the HTTP    *)
(* requests it sent, in order.                                             *)
(***************************************************************************)
EXTENDS Integers, Sequences, FiniteSets

VARIABLES TIBER_TOKEN, call, pc, exc, requests, my_home, price_df,
          consumption_df, current_weather_df, hourly_forecast_df, writes, files

vars == <<TIBER_TOKEN, call, pc, exc, requests, my_home, price_df,
          consumption_df, current_weather_df, hourly_forecast_df, writes, files>>

-----------------------------------------------------------------------------
(* Bounds of the model *)

MaxHomes == 2
MaxToday == 2
MaxTomorrow == 1
MaxNodes == 2
MaxHours == 2

-----------------------------------------------------------------------------
(* Python values *)

None == [kind |-> "None"]
Missing == [kind |-> "missing"]
Str(s) == [kind |-> "str", s |-> s]
Num(n) == [kind |-> "num", n |-> n]
List(items) == [kind |-> "list", items |-> items]
DataFrame(columns, rows) == [kind |-> "DataFrame", columns |-> columns, rows |-> rows]
(* pd.DataFrame([]), pd.DataFrame(None), pd.DataFrame() *)
EmptyFrame == DataFrame(<<>>, <<>>)

Keys(d) == {k \in DOMAIN d \ {"kind"} : d[k].kind # "missing"}

(* bool(v) *)
Truthy(v) ==
    CASE v.kind = "None" -> FALSE
      [] v.kind = "missing" -> FALSE
      [] v.kind = "str" -> v.s # ""
      [] v.kind = "num" -> v.n # 0
      [] v.kind = "list" -> v.items # <<>>
      [] v.kind = "dict" -> Keys(v) # {}
      [] OTHER -> TRUE

(* df.empty *)
empty(df) == df.rows = <<>>

(* Results of a call *)
Return(v, sent) == [exc |-> "none", ret |-> v, sent |-> sent]
Raise(e, sent) == [exc |-> e, ret |-> None, sent |-> sent]

SeqsUpTo(S, n) == UNION {[1..k -> S] : k \in 0..n}

-----------------------------------------------------------------------------
(* The HTTP layer: what one request ends in *)

(* a response came back, with its final status code and its JSON body *)
Response(code, body) == [status |-> "response", code |-> code, body |-> body]
(* no response came back: DNS, timeout, connection refused *)
NetworkError == [status |-> "network_error", code |-> 0, body |-> None]
(* final status codes: 2xx, one below 400 that is not 2xx (a 300 without a  *)
(* Location header is not followed), and 4xx / 5xx                          *)
SuccessCodes == {200, 201}
OtherCodes == {300}
ErrorCodes == {401, 500}
HttpFailures == {Response(c, None) : c \in ErrorCodes} \cup {NetworkError}
(* Response.raise_for_status(): HTTPError for 400 <= status_code < 600 *)
raises_for_status(code) == code >= 400 /\ code < 600
NoOutcome == [status |-> "not_sent", code |-> 0, body |-> None]

(* as post_json, without the except clause for RequestException *)
post_json_uncaught(query, outcome) ==
    IF outcome.status = "response" /\ ~raises_for_status(outcome.code)
    THEN Return(outcome.body, <<query>>)
    ELSE IF outcome.status = "response"
    THEN Return(None, <<query>>)
    ELSE Raise("ConnectionError", <<query>>)

(* lines 27-36: requests.post(...); raise_for_status(); json(), with the    *)
(* except clauses                                                           *)
post_json(query, outcome) ==
    IF outcome.status = "response" /\ ~raises_for_status(outcome.code)
    THEN Return(outcome.body, <<query>>)
    ELSE Return(None, <<query>>)

(* as make_graphql_request, with the token looked at after the request *)
make_graphql_request_late(token, query, outcome) ==
    IF token = None
    THEN Raise("ValueError", <<query>>)
    ELSE post_json(query, outcome)

(* lines 14-36 *)
make_graphql_request(token, query, outcome) ==
    IF token = None
    THEN Raise("ValueError", <<>>)
    ELSE post_json(query, outcome)

-----------------------------------------------------------------------------
(* get_home_id *)

Address(a1, city) == [kind |-> "dict", address1 |-> a1, city |-> city]
Home(id, address) == [kind |-> "dict", id |-> id, address |-> address]

(* as first, taking the other end of the list *)
last_home(homes) == homes.items[Len(homes.items)]

(* homes[0] *)
first(homes) == homes.items[1]

(* lines 62-63: the f-string reads address1, city, id; then the pair *)
found_home(h) ==
    IF h.kind = "None" THEN Raise("TypeError", <<>>)
    ELSE IF h.address.kind = "missing" THEN Raise("KeyError", <<>>)
    ELSE IF h.address.kind = "None" THEN Raise("TypeError", <<>>)
    ELSE IF h.address.address1.kind = "missing" THEN Raise("KeyError", <<>>)
    ELSE IF h.address.city.kind = "missing" THEN Raise("KeyError", <<>>)
    ELSE IF h.id.kind = "missing" THEN Raise("KeyError", <<>>)
    ELSE Return([kind |-> "tuple", id |-> h.id, address1 |-> h.address.address1], <<>>)

(* lines 58-65 on the parsed response *)
parse_home_id(data) ==
    IF ~Truthy(data) THEN Return(None, <<>>)
    ELSE IF data.data.kind = "missing" THEN Return(None, <<>>)
    ELSE IF data.data.kind = "None" THEN Raise("TypeError", <<>>)
    ELSE IF data.data.viewer.kind = "missing" THEN Return(None, <<>>)
    ELSE IF data.data.viewer.kind = "None" THEN Raise("TypeError", <<>>)
    ELSE IF data.data.viewer.homes.kind = "missing" THEN Return(None, <<>>)
    ELSE IF ~Truthy(data.data.viewer.homes) THEN Return(None, <<>>)
    ELSE found_home(first(data.data.viewer.homes))

get_home_id(token, outcome) ==
    LET r == make_graphql_request(token, "homes", outcome)
    IN  IF r.exc # "none" THEN r
        ELSE LET p == parse_home_id(r.ret)
             IN  [exc |-> p.exc, ret |-> p.ret, sent |-> r.sent]

-----------------------------------------------------------------------------
(* Timestamps: pd.to_datetime on the ISO strings of the model, as hours     *)
(* since 2024-01-01T00:00:00Z                                               *)

to_datetime(s) ==
    CASE s = "2024-01-01T10:00:00Z" -> 10
      [] s = "2024-01-01T11:00:00Z" -> 11
      [] s = "2024-01-01T12:00:00Z" -> 12
      [] s = "2024-01-02T00:00:00Z" -> 24
      [] s = "2024-01-01T10:00" -> 10
      [] s = "2024-01-01T11:00" -> 11

(* DataFrame.drop_duplicates(subset=key): keep='first' *)
RECURSIVE drop_duplicates(_, _)
drop_duplicates(rows, key) ==
    IF rows = <<>> THEN <<>>
    ELSE LET init == drop_duplicates(SubSeq(rows, 1, Len(rows) - 1), key)
             last == rows[Len(rows)]
         IN  IF \E i \in 1..(Len(rows) - 1) : rows[i][key] = last[key]
             THEN init
             ELSE Append(init, last)

(* insertion of one row into a sorted sequence, after the rows with an equal key *)
RECURSIVE insert_sorted(_, _, _)
insert_sorted(sorted, row, key) ==
    IF sorted = <<>> THEN <<row>>
    ELSE IF sorted[Len(sorted)][key] <= row[key] THEN Append(sorted, row)
    ELSE Append(insert_sorted(SubSeq(sorted, 1, Len(sorted) - 1), row, key),
                sorted[Len(sorted)])

(* DataFrame.sort_values(key).reset_index(drop=True); rows with equal keys  *)
(* keep their order, as numpy's sort does for tables of fewer than 17 rows  *)
RECURSIVE sort_values(_, _)
sort_values(rows, key) ==
    IF rows = <<>> THEN <<>>
    ELSE insert_sorted(sort_values(SubSeq(rows, 1, Len(rows) - 1), key),
                       rows[Len(rows)], key)

-----------------------------------------------------------------------------
(* get_current_and_upcoming_prices *)

(* one row of pd.DataFrame(prices) after line 120 *)
price_row(e) ==
    [total |-> e.total.n, startsAt |-> to_datetime(e.startsAt.s), level |-> e.level.s]

(* lines 106-116: the blocks that are present and non-empty, concatenated *)
collect_prices(price_info) ==
    (IF Truthy(price_info.current) THEN <<price_info.current>> ELSE <<>>)
    \o (IF Truthy(price_info.today) THEN price_info.today.items ELSE <<>>)
    \o (IF Truthy(price_info.tomorrow) THEN price_info.tomorrow.items ELSE <<>>)

(* lines 118-125 *)
prices_frame(prices) ==
    LET rows == [i \in 1..Len(prices) |-> price_row(prices[i])]
    IN  IF prices = <<>> THEN EmptyFrame
        ELSE DataFrame(<<"total", "startsAt", "level">>,
                       sort_values(drop_duplicates(rows, "startsAt"), "startsAt"))

(* the last conjunct of the conditions on lines 103 and 155 *)
home_guard(viewer) ==
    IF viewer.kind = "None" THEN Raise("TypeError", <<>>)
    ELSE IF viewer.home.kind = "missing" THEN Raise("KeyError", <<>>)
    ELSE IF viewer.home.kind = "None" THEN Raise("TypeError", <<>>)
    ELSE Return([kind |-> "bool", b |-> viewer.home.home.kind # "missing"], <<>>)

(* line 104 *)
price_info_of(home) ==
    IF home.currentSubscription.kind = "missing" THEN Raise("KeyError", <<>>)
    ELSE IF home.currentSubscription.kind = "None" THEN Raise("TypeError", <<>>)
    ELSE IF home.currentSubscription.priceInfo.kind = "missing" THEN Raise("KeyError", <<>>)
    ELSE IF home.currentSubscription.priceInfo.kind = "None" THEN Raise("AttributeError", <<>>)
    ELSE Return(home.currentSubscription.priceInfo, <<>>)

(* lines 102-125 on the parsed response *)
parse_prices(data) ==
    IF ~Truthy(data) THEN Return(prices_frame(<<>>), <<>>)
    ELSE IF data.data.kind = "missing" THEN Return(prices_frame(<<>>), <<>>)
    ELSE IF data.data.kind = "None" THEN Raise("TypeError", <<>>)
    ELSE IF data.data.viewer.kind = "missing" THEN Return(prices_frame(<<>>), <<>>)
    ELSE LET g == home_guard(data.data.viewer)
         IN  IF g.exc # "none" THEN g
             ELSE IF ~g.ret.b THEN Return(prices_frame(<<>>), <<>>)
             ELSE LET pi == price_info_of(data.data.viewer.home)
                  IN  IF pi.exc # "none" THEN pi
                      ELSE Return(prices_frame(collect_prices(pi.ret)), <<>>)

get_current_and_upcoming_prices(token, outcome) ==
    LET r == make_graphql_request(token, "priceInfo", outcome)
    IN  IF r.exc # "none" THEN r
        ELSE LET p == parse_prices(r.ret)
             IN  [exc |-> p.exc, ret |-> p.ret, sent |-> r.sent]

-----------------------------------------------------------------------------
(* get_historical_consumption *)

(* one row of pd.DataFrame(consumption_data) after lines 161-163 *)
consumption_row(n) ==
    [from |-> to_datetime(n.from.s), to |-> to_datetime(n.to.s),
     consumption |-> n.consumption.n, unitPrice |-> n.unitPrice.n,
     unitPriceVAT |-> n.unitPriceVAT.n, totalCost |-> n.totalCost.n,
     currency |-> n.currency.s,
     totalPrice |-> n.unitPrice.n + n.unitPriceVAT.n]

(* line 156-157 *)
collect_nodes(home) ==
    IF Truthy(home.consumption) /\ Truthy(home.consumption.nodes)
    THEN home.consumption.nodes.items
    ELSE <<>>

(* lines 159-168 *)
consumption_frame(nodes) ==
    LET rows == [i \in 1..Len(nodes) |-> consumption_row(nodes[i])]
    IN  IF nodes = <<>> THEN EmptyFrame
        ELSE DataFrame(<<"from", "to", "consumption", "unitPrice", "unitPriceVAT",
                         "totalCost", "currency", "totalPrice">>,
                       sort_values(rows, "from"))

(* lines 154-168 on the parsed response *)
parse_consumption(data) ==
    IF ~Truthy(data) THEN Return(consumption_frame(<<>>), <<>>)
    ELSE IF data.data.kind = "missing" THEN Return(consumption_frame(<<>>), <<>>)
    ELSE IF data.data.kind = "None" THEN Raise("TypeError", <<>>)
    ELSE IF data.data.viewer.kind = "missing" THEN Return(consumption_frame(<<>>), <<>>)
    ELSE LET g == home_guard(data.data.viewer)
         IN  IF g.exc # "none" THEN g
             ELSE IF ~g.ret.b THEN Return(consumption_frame(<<>>), <<>>)
             ELSE Return(consumption_frame(collect_nodes(data.data.viewer.home)), <<>>)

get_historical_consumption(token, outcome) ==
    LET r == make_graphql_request(token, "consumption", outcome)
    IN  IF r.exc # "none" THEN r
        ELSE LET p == parse_consumption(r.ret)
             IN  [exc |-> p.exc, ret |-> p.ret, sent |-> r.sent]

-----------------------------------------------------------------------------
(* get_live_measurement *)

get_live_measurement(token, outcome) ==
    make_graphql_request(token, "liveMeasurement", outcome)

-----------------------------------------------------------------------------
(* get_hourly_forecast, get_current_weather *)

(* lines 53-83: Series.map over the code table; a code outside it gives NaN *)
weather_description(code) ==
    CASE code = 0 -> "Clear sky"
      [] code = 1 -> "Mostly clear"
      [] code = 2 -> "Partly cloudy"
      [] code = 3 -> "Overcast"
      [] code = 45 -> "Fog"
      [] code = 48 -> "Depositing rime fog"
      [] code = 51 -> "Drizzle: Light"
      [] code = 53 -> "Drizzle: Moderate"
      [] code = 55 -> "Drizzle: Dense"
      [] code = 56 -> "Freezing Drizzle: Light"
      [] code = 57 -> "Freezing Drizzle: Dense"
      [] code = 61 -> "Rain: Slight"
      [] code = 63 -> "Rain: Moderate"
      [] code = 65 -> "Rain: Heavy"
      [] code = 66 -> "Freezing Rain: Light"
      [] code = 67 -> "Freezing Rain: Heavy"
      [] code = 71 -> "Snow fall: Slight"
      [] code = 73 -> "Snow fall: Moderate"
      [] code = 75 -> "Snow fall: Heavy"
      [] code = 77 -> "Snow grains"
      [] code = 80 -> "Rain showers: Slight"
      [] code = 81 -> "Rain showers: Moderate"
      [] code = 82 -> "Rain showers: Violent"
      [] code = 85 -> "Snow showers: Slight"
      [] code = 86 -> "Snow showers: Heavy"
      [] code = 95 -> "Thunderstorm: Slight or moderate"
      [] code = 96 -> "Thunderstorm with slight hail"
      [] code = 99 -> "Thunderstorm with heavy hail"
      [] OTHER -> "NaN"

(* as wind_direction_cardinal, with the lower edge of N exclusive *)
wind_direction_cardinal_open(d) ==
    IF d > 3375 \/ d < 225 THEN "N"
    ELSE IF d >= 225 /\ d < 675 THEN "NE"
    ELSE IF d >= 675 /\ d < 1125 THEN "E"
    ELSE IF d >= 1125 /\ d < 1575 THEN "SE"
    ELSE IF d >= 1575 /\ d < 2025 THEN "S"
    ELSE IF d >= 2025 /\ d < 2475 THEN "SW"
    ELSE IF d >= 2475 /\ d < 2925 THEN "W"
    ELSE "NW"

(* lines 86-95; d is the bearing in tenths of a degree (3375 is 337.5) *)
wind_direction_cardinal(d) ==
    IF d >= 3375 \/ d < 225 THEN "N"
    ELSE IF d >= 225 /\ d < 675 THEN "NE"
    ELSE IF d >= 675 /\ d < 1125 THEN "E"
    ELSE IF d >= 1125 /\ d < 1575 THEN "SE"
    ELSE IF d >= 1575 /\ d < 2025 THEN "S"
    ELSE IF d >= 2025 /\ d < 2475 THEN "SW"
    ELSE IF d >= 2475 /\ d < 2925 THEN "W"
    ELSE "NW"

(* the 'hourly' block of a response: one array per variable, aligned by index *)
Hourly(hours) ==
    [kind |-> "dict",
     time |-> List([i \in 1..Len(hours) |-> Str(hours[i].time)]),
     weather_code |-> List([i \in 1..Len(hours) |-> Num(hours[i].weather_code)]),
     wind_direction_10m |-> List([i \in 1..Len(hours) |-> Num(hours[i].wind_direction_10m)])]

(* line 44: pd.DataFrame(data['hourly']), one row per index of the arrays *)
hourly_rows(hourly) ==
    IF hourly.kind = "None" THEN <<>>
    ELSE [i \in 1..Len(hourly.time.items) |->
            [time |-> hourly.time.items[i].s,
             weather_code |-> hourly.weather_code.items[i].n,
             wind_direction_10m |-> hourly.wind_direction_10m.items[i].n]]

(* lines 48-95: the renamed and the derived columns of one row *)
weather_row(r) ==
    [timestamp |-> to_datetime(r.time),
     weather_code |-> r.weather_code,
     wind_direction_10m |-> r.wind_direction_10m,
     weather_description |-> weather_description(r.weather_code),
     wind_direction_cardinal |-> wind_direction_cardinal(r.wind_direction_10m)]

(* lines 40-101 on the parsed response *)
parse_hourly(data) ==
    IF ~Truthy(data) \/ data.hourly.kind = "missing"
    THEN EmptyFrame
    ELSE LET rows == hourly_rows(data.hourly)
         IN  IF data.hourly.kind = "None" THEN EmptyFrame
             ELSE IF rows = <<>>
             THEN DataFrame(<<"time", "weather_code", "wind_direction_10m">>, <<>>)
             ELSE DataFrame(<<"timestamp", "weather_code", "wind_direction_10m",
                              "weather_description", "wind_direction_cardinal">>,
                            sort_values([i \in 1..Len(rows) |-> weather_row(rows[i])],
                                        "timestamp"))

(* lines 35-107: requests.get(...); raise_for_status(); json(), with the    *)
(* except clauses                                                           *)
get_hourly_forecast(outcome) ==
    IF outcome.status = "response" /\ ~raises_for_status(outcome.code)
    THEN Return(parse_hourly(outcome.body), <<"forecast">>)
    ELSE Return(EmptyFrame, <<"forecast">>)

(* hourly_df.iloc[0].to_frame().T *)
first_row(df) == DataFrame(df.columns, <<df.rows[1]>>)

get_current_weather(outcome) ==
    LET r == get_hourly_forecast(outcome)
    IN  IF ~empty(r.ret)
        THEN Return(first_row(r.ret), r.sent)
        ELSE Return(EmptyFrame, r.sent)

-----------------------------------------------------------------------------
(* The responses the servers may send *)

Errors == List(<<Str("error")>>)
Body(data, errors) == [kind |-> "dict", data |-> data, errors |-> errors]
Data(viewer) == [kind |-> "dict", viewer |-> viewer]

(* bodies that stop short of the viewer's content, whatever the query *)
ShortBodies ==
    {None, Body(Missing, Missing), Body(Missing, Errors), Body(None, Errors),
     Body(Data(Missing), Missing), Body(Data(None), Errors)}

(* home listing *)
ValidHomes ==
    {Home(Str("h1"), Address(Str("Main St"), Str("Den Haag"))),
     Home(Str("h2"), Address(Str("Side St"), Str("Delft")))}
BrokenHomes ==
    {None,
     Home(Str("h1"), Missing),
     Home(Str("h1"), None),
     Home(Str("h1"), Address(Missing, Str("Den Haag"))),
     Home(Str("h1"), Address(Str("Main St"), Missing)),
     Home(Missing, Address(Str("Main St"), Str("Den Haag"))),
     Home(None, Address(Str("Main St"), Str("Den Haag")))}
HomesViewer(homes) == [kind |-> "dict", homes |-> homes]
HomeLists == {List(l) : l \in SeqsUpTo(ValidHomes \cup BrokenHomes, MaxHomes)}
HomeBodies ==
    ShortBodies
    \cup {Body(Data(HomesViewer(h)), Missing) : h \in {Missing, None} \cup HomeLists}

(* price info *)
PriceEntry(total, startsAt, level) ==
    [kind |-> "dict", total |-> Num(total), startsAt |-> Str(startsAt), level |-> Str(level)]
PriceEntries ==
    {PriceEntry(1, "2024-01-01T10:00:00Z", "NORMAL"),
     PriceEntry(2, "2024-01-01T10:00:00Z", "EXPENSIVE"),
     PriceEntry(1, "2024-01-01T11:00:00Z", "NORMAL"),
     PriceEntry(2, "2024-01-02T00:00:00Z", "EXPENSIVE")}
PriceInfos ==
    [kind : {"dict"},
     current : {Missing, None} \cup PriceEntries,
     today : {Missing, None} \cup {List(l) : l \in SeqsUpTo(PriceEntries, MaxToday)},
     tomorrow : {Missing, None} \cup {List(l) : l \in SeqsUpTo(PriceEntries, MaxTomorrow)}]
Subscriptions == [kind : {"dict"}, priceInfo : {Missing, None} \cup PriceInfos]
(* the object under 'home'; its own 'home' key is one no query asks for *)
PriceHomes ==
    [kind : {"dict"}, home : {Missing, None},
     currentSubscription : {Missing, None} \cup Subscriptions]
HomeViewer(home) == [kind |-> "dict", home |-> home]
PriceBodies ==
    ShortBodies
    \cup {Body(Data(HomeViewer(h)), Missing) : h \in {Missing, None} \cup PriceHomes}

(* consumption *)
Node(from, to, unitPrice, unitPriceVAT) ==
    [kind |-> "dict", from |-> Str(from), to |-> Str(to), consumption |-> Num(3),
     unitPrice |-> Num(unitPrice), unitPriceVAT |-> Num(unitPriceVAT),
     totalCost |-> Num(3 * (unitPrice + unitPriceVAT)), currency |-> Str("EUR")]
Nodes ==
    {Node("2024-01-01T10:00:00Z", "2024-01-01T11:00:00Z", 10, 2),
     Node("2024-01-01T10:00:00Z", "2024-01-01T11:00:00Z", 20, 5),
     Node("2024-01-01T11:00:00Z", "2024-01-01T12:00:00Z", 10, 2),
     Node("2024-01-01T11:00:00Z", "2024-01-01T12:00:00Z", 20, 5)}
Consumptions ==
    [kind : {"dict"}, nodes : {Missing, None} \cup {List(l) : l \in SeqsUpTo(Nodes, MaxNodes)}]
ConsumptionHomes ==
    [kind : {"dict"}, home : {Missing, None},
     consumption : {Missing, None} \cup Consumptions]
ConsumptionBodies ==
    ShortBodies
    \cup {Body(Data(HomeViewer(h)), Missing) : h \in {Missing, None} \cup ConsumptionHomes}

(* live measurement *)
LiveBodies ==
    {None, Body(None, Errors),
     Body([kind |-> "dict", liveMeasurement |-> None], Missing),
     Body([kind |-> "dict", liveMeasurement |-> [kind |-> "dict", power |-> Num(450)]], Missing)}

(* hourly forecast *)
Hour(time, code, bearing) ==
    [time |-> time, weather_code |-> code, wind_direction_10m |-> bearing]
EdgeHours ==
    {Hour("2024-01-01T10:00", 3, d) : d \in {224, 225, 3375}}
    \cup {Hour("2024-01-01T11:00", 4, d) : d \in {224, 225, 3375}}
AllBearingHours == {Hour("2024-01-01T10:00", 0, d) : d \in 0..3599}
WeatherBody(latitude, hourly) == [kind |-> "dict", latitude |-> latitude, hourly |-> hourly]
ShortWeatherBodies ==
    {None, WeatherBody(Missing, Missing), WeatherBody(Num(52), Missing),
     WeatherBody(Num(52), None)}
EdgeWeatherBodies ==
    ShortWeatherBodies
    \cup {WeatherBody(Num(52), Hourly(l)) : l \in SeqsUpTo(EdgeHours, MaxHours)}
WeatherBodies ==
    EdgeWeatherBodies \cup {WeatherBody(Num(52), Hourly(<<h>>)) : h \in AllBearingHours}

(* what a request may end in; none is sent, so nothing comes back, without a token *)
Outcomes(bodies) ==
    {Response(c, b) : c \in SuccessCodes \cup OtherCodes, b \in bodies} \cup HttpFailures
HomeOutcomes == Outcomes(HomeBodies)
PriceOutcomes == Outcomes(PriceBodies)
ConsumptionOutcomes == Outcomes(ConsumptionBodies)
LiveOutcomes == Outcomes(LiveBodies)
WeatherOutcomes == Outcomes(WeatherBodies)
EdgeWeatherOutcomes == Outcomes(EdgeWeatherBodies)
TokenOutcomes(outcomes) == IF TIBER_TOKEN = None THEN {NoOutcome} ELSE outcomes

-----------------------------------------------------------------------------
(* State *)

NoCall == [fn |-> "none", outcome |-> NoOutcome, res |-> Return(None, <<>>)]
Unbound == [kind |-> "unbound"]

historical_consumption_csv == "../data/raw/historical_consumption.csv"
(* line 208: the path of price_df.to_csv *)
price_csv_path == historical_consumption_csv
(* as consumption_csv_path, with a file of its own *)
consumption_csv_path_own == "../data/raw/consumption.csv"
(* line 215: the path of consumption_df.to_csv *)
consumption_csv_path == historical_consumption_csv
current_weather_csv == "data/raw/current_weather_data.csv"
hourly_forecast_csv == "data/raw/hourly_forecast_data.csv"

(* DataFrame.to_csv(path): a header line with the unnamed index column, then *)
(* one line per row, led by the row's index                                  *)
to_csv(df) ==
    [header |-> <<"">> \o df.columns,
     lines |-> [i \in 1..Len(df.rows) |-> [index |-> i - 1, row |-> df.rows[i]]]]

(* the files written so far, by path *)
NoFiles == [p \in {} |-> to_csv(EmptyFrame)]

(* the three ways the code is run: a caller importing the modules and       *)
(* calling one function, get_api_data.py as a script, and                   *)
(* get_weather_api_data.py as a script                                      *)
Init ==
    /\ TIBER_TOKEN \in {None, Str(""), Str("secret")}
    /\ call = NoCall
    /\ pc \in {"import", "energy_home", "weather_current"}
    /\ exc = "none"
    /\ requests = <<>>
    /\ my_home = Unbound
    /\ price_df = Unbound
    /\ consumption_df = Unbound
    /\ current_weather_df = Unbound
    /\ hourly_forecast_df = Unbound
    /\ writes = <<>>
    /\ files = NoFiles

main_vars == <<exc, my_home, price_df, consumption_df, current_weather_df,
               hourly_forecast_df, writes, files>>

-----------------------------------------------------------------------------
(* One call of one function by an importing caller *)

Called(fn, outcome, res) ==
    /\ pc' = "called"
    /\ call' = [fn |-> fn, outcome |-> outcome, res |-> res]
    /\ requests' = requests \o res.sent
    /\ UNCHANGED <<TIBER_TOKEN, main_vars>>

CallGetHomeId ==
    /\ pc = "import"
    /\ \E o \in TokenOutcomes(HomeOutcomes) :
        Called("get_home_id", o, get_home_id(TIBER_TOKEN, o))

CallGetPrices ==
    /\ pc = "import"
    /\ \E o \in TokenOutcomes(PriceOutcomes) :
        Called("get_current_and_upcoming_prices", o,
               get_current_and_upcoming_prices(TIBER_TOKEN, o))

CallGetConsumption ==
    /\ pc = "import"
    /\ \E o \in TokenOutcomes(ConsumptionOutcomes) :
        Called("get_historical_consumption", o,
               get_historical_consumption(TIBER_TOKEN, o))

CallGetLive ==
    /\ pc = "import"
    /\ \E o \in TokenOutcomes(LiveOutcomes) :
        Called("get_live_measurement", o, get_live_measurement(TIBER_TOKEN, o))

CallGetHourlyForecast ==
    /\ pc = "import"
    /\ \E o \in WeatherOutcomes :
        Called("get_hourly_forecast", o, get_hourly_forecast(o))

CallGetCurrentWeather ==
    /\ pc = "import"
    /\ \E o \in WeatherOutcomes :
        Called("get_current_weather", o, get_current_weather(o))

-----------------------------------------------------------------------------
(* get_api_data.py run as a script *)

(* an exception that no one catches ends the script *)
Crash(e) ==
    /\ pc' = "crashed"
    /\ exc' = e

(* df.to_csv(path) *)
Write(path, frame, df) ==
    /\ writes' = Append(writes, [path |-> path, frame |-> frame, table |-> df])
    /\ files' = [p \in DOMAIN files \cup {path} |->
                    IF p = path THEN to_csv(df) ELSE files[p]]

(* line 200: the unpacking of the value of get_home_id() into two names *)
unpack_pair(v) ==
    IF v.kind = "tuple" THEN Return(v, <<>>) ELSE Raise("TypeError", <<>>)

(* lines 200-202, 221; my_home is the value get_home_id() returned *)
MainHome ==
    /\ pc = "energy_home"
    /\ \E o \in TokenOutcomes(HomeOutcomes) :
        LET r == get_home_id(TIBER_TOKEN, o)
            u == unpack_pair(r.ret)
        IN  /\ requests' = requests \o r.sent
            /\ IF r.exc # "none"
               THEN Crash(r.exc) /\ UNCHANGED my_home
               ELSE /\ my_home' = r.ret
                    /\ IF u.exc # "none"
                       THEN Crash(u.exc)
                       ELSE /\ pc' = IF Truthy(u.ret.id) THEN "energy_prices" ELSE "energy_exit"
                            /\ UNCHANGED exc
    /\ UNCHANGED <<TIBER_TOKEN, call, price_df, consumption_df, current_weather_df,
                   hourly_forecast_df, writes, files>>

(* lines 203-208 *)
MainPrices ==
    /\ pc = "energy_prices"
    /\ \E o \in TokenOutcomes(PriceOutcomes) :
        LET r == get_current_and_upcoming_prices(TIBER_TOKEN, o)
        IN  /\ requests' = requests \o r.sent
            /\ IF r.exc # "none"
               THEN Crash(r.exc) /\ UNCHANGED <<price_df, writes, files>>
               ELSE /\ price_df' = r.ret
                    /\ pc' = "energy_consumption"
                    /\ UNCHANGED exc
                    /\ IF ~empty(r.ret)
                       THEN Write(price_csv_path, "price_df", r.ret)
                       ELSE UNCHANGED <<writes, files>>
    /\ UNCHANGED <<TIBER_TOKEN, call, my_home, consumption_df, current_weather_df,
                   hourly_forecast_df>>

(* lines 210-215 *)
MainConsumption ==
    /\ pc = "energy_consumption"
    /\ \E o \in TokenOutcomes(ConsumptionOutcomes) :
        LET r == get_historical_consumption(TIBER_TOKEN, o)
        IN  /\ requests' = requests \o r.sent
            /\ IF r.exc # "none"
               THEN Crash(r.exc) /\ UNCHANGED <<consumption_df, writes, files>>
               ELSE /\ consumption_df' = r.ret
                    /\ pc' = "energy_live"
                    /\ UNCHANGED exc
                    /\ IF ~empty(r.ret)
                       THEN Write(consumption_csv_path, "consumption_df", r.ret)
                       ELSE UNCHANGED <<writes, files>>
    /\ UNCHANGED <<TIBER_TOKEN, call, my_home, price_df, current_weather_df,
                   hourly_forecast_df>>

(* lines 217-220 *)
MainLive ==
    /\ pc = "energy_live"
    /\ \E o \in TokenOutcomes(LiveOutcomes) :
        LET r == get_live_measurement(TIBER_TOKEN, o)
        IN  /\ requests' = requests \o r.sent
            /\ IF r.exc # "none"
               THEN Crash(r.exc)
               ELSE pc' = "done" /\ UNCHANGED exc
    /\ UNCHANGED <<TIBER_TOKEN, call, my_home, price_df, consumption_df,
                   current_weather_df, hourly_forecast_df, writes, files>>

(* line 222 *)
MainExit ==
    /\ pc = "energy_exit"
    /\ pc' = "done"
    /\ UNCHANGED <<TIBER_TOKEN, call, exc, requests, my_home, price_df, consumption_df,
                   current_weather_df, hourly_forecast_df, writes, files>>

-----------------------------------------------------------------------------
(* get_weather_api_data.py run as a script *)

(* lines 125-129 *)
MainCurrentWeather ==
    /\ pc = "weather_current"
    /\ \E o \in EdgeWeatherOutcomes :
        LET r == get_current_weather(o)
        IN  /\ requests' = requests \o r.sent
            /\ current_weather_df' = r.ret
            /\ Write(current_weather_csv, "current_weather_df", r.ret)
    /\ pc' = "weather_hourly"
    /\ UNCHANGED <<TIBER_TOKEN, call, exc, my_home, price_df, consumption_df,
                   hourly_forecast_df>>

(* lines 131-138 *)
MainHourlyForecast ==
    /\ pc = "weather_hourly"
    /\ \E o \in EdgeWeatherOutcomes :
        LET r == get_hourly_forecast(o)
        IN  /\ requests' = requests \o r.sent
            /\ hourly_forecast_df' = r.ret
            /\ IF ~empty(r.ret)
               THEN Write(hourly_forecast_csv, "hourly_forecast_df", r.ret)
               ELSE UNCHANGED <<writes, files>>
    /\ pc' = "done"
    /\ UNCHANGED <<TIBER_TOKEN, call, exc, my_home, price_df, consumption_df,
                   current_weather_df>>

-----------------------------------------------------------------------------

Next ==
    \/ CallGetLive
    \/ CallGetHomeId
    \/ CallGetPrices
    \/ CallGetConsumption
    \/ CallGetHourlyForecast
    \/ CallGetCurrentWeather
    \/ MainHome
    \/ MainPrices
    \/ MainConsumption
    \/ MainLive
    \/ MainExit
    \/ MainCurrentWeather
    \/ MainHourlyForecast

Spec == Init /\ [][Next]_vars

-----------------------------------------------------------------------------
(* Properties *)

CalledFn(fn) == pc = "called" /\ call.fn = fn
Received ==
    call.outcome.status = "response" /\ call.outcome.code >= 200 /\ call.outcome.code < 300
Absent(v) == v = None \/ (v.kind = "DataFrame" /\ empty(v))
EnergyFns == {"get_home_id", "get_current_and_upcoming_prices",
              "get_historical_consumption", "get_live_measurement"}

(* a block of a response that is there: neither a missing key nor null *)
Present(v) == v.kind \notin {"missing", "None"}

(* the responses an API that answers the price query sends *)
WellFormedPriceBodies ==
    {Body(Data(HomeViewer([kind |-> "dict", home |-> Missing,
                           currentSubscription |-> [kind |-> "dict", priceInfo |-> i]])),
          Missing) : i \in PriceInfos}
PriceInfoOf(body) == body.data.viewer.home.currentSubscription.priceInfo

(* current, then today, then tomorrow, of the blocks that are there *)
Concatenation(i) ==
    (IF Present(i.current) THEN <<i.current>> ELSE <<>>)
    \o (IF Present(i.today) THEN i.today.items ELSE <<>>)
    \o (IF Present(i.tomorrow) THEN i.tomorrow.items ELSE <<>>)

FirstAt(entries, t) ==
    entries[CHOOSE j \in DOMAIN entries :
                /\ to_datetime(entries[j].startsAt.s) = t
                /\ \A k \in 1..(j - 1) : to_datetime(entries[k].startsAt.s) # t]

(* C1: for every well-formed price-info response the table has one row per *)
(* distinct startsAt of the present blocks, strictly ascending by startsAt, *)
(* each row being the first entry with its startsAt in the order current,   *)
(* today, tomorrow                                                          *)
C1_PricesMergedDedupedSorted ==
    (CalledFn("get_current_and_upcoming_prices") /\ Received
        /\ call.outcome.body \in WellFormedPriceBodies)
    => LET entries == Concatenation(PriceInfoOf(call.outcome.body))
           stamps == {to_datetime(entries[j].startsAt.s) : j \in DOMAIN entries}
           rows == call.res.ret.rows
       IN  /\ call.res.exc = "none"
           /\ Len(rows) = Cardinality(stamps)
           /\ {rows[i].startsAt : i \in DOMAIN rows} = stamps
           /\ \A i \in 1..(Len(rows) - 1) : rows[i].startsAt < rows[i + 1].startsAt
           /\ \A i \in DOMAIN rows :
                LET e == FirstAt(entries, rows[i].startsAt)
                IN  /\ rows[i].total = e.total.n
                    /\ rows[i].level = e.level.s

(* the responses an API that answers the consumption query sends *)
WellFormedConsumptionBodies ==
    {Body(Data(HomeViewer([kind |-> "dict", home |-> Missing, consumption |-> c])),
          Missing) : c \in Consumptions}
NodesOf(body) ==
    LET nodes == body.data.viewer.home.consumption.nodes
    IN  IF Present(nodes) THEN nodes.items ELSE <<>>

(* C2: for every well-formed consumption response the table has one row    *)
(* per node, ascending by 'from', every row's totalPrice is unitPrice +     *)
(* unitPriceVAT, and the table is empty only when there are no nodes        *)
C2_ConsumptionOneRowPerNode ==
    (CalledFn("get_historical_consumption") /\ Received
        /\ call.outcome.body \in WellFormedConsumptionBodies)
    => LET nodes == NodesOf(call.outcome.body)
           rows == call.res.ret.rows
       IN  /\ call.res.exc = "none"
           /\ Len(rows) = Len(nodes)
           /\ \A i \in 1..(Len(rows) - 1) : rows[i].from <= rows[i + 1].from
           /\ \A i \in DOMAIN rows :
                rows[i].totalPrice = rows[i].unitPrice + rows[i].unitPriceVAT
           /\ (rows = <<>> => nodes = <<>>)

(* responses with an expected key missing or null on the way down *)
MalformedHomeBodies ==
    ShortBodies
    \cup {Body(Data(HomesViewer(h)), Missing) : h \in {Missing, None}}
    \cup {Body(Data(HomesViewer(List(<<h>>))), Missing) :
            h \in {None, Home(Str("h1"), Missing), Home(Str("h1"), None)}}
MalformedPriceBodies ==
    ShortBodies
    \cup {Body(Data(HomeViewer(h)), Missing) : h \in {Missing, None}}
    \cup {Body(Data(HomeViewer([kind |-> "dict", home |-> Missing,
                                currentSubscription |-> c])), Missing) :
            c \in {Missing, None, [kind |-> "dict", priceInfo |-> Missing],
                   [kind |-> "dict", priceInfo |-> None]}}
MalformedConsumptionBodies ==
    ShortBodies
    \cup {Body(Data(HomeViewer(h)), Missing) : h \in {Missing, None}}
    \cup {Body(Data(HomeViewer([kind |-> "dict", home |-> Missing,
                                consumption |-> c])), Missing) :
            c \in {Missing, None, [kind |-> "dict", nodes |-> Missing],
                   [kind |-> "dict", nodes |-> None]}}

(* C3: on a received response that is malformed or partial, get_home_id    *)
(* returns None and the two table functions return an empty table; none    *)
(* raises                                                                   *)
C3_MalformedResponseIsNoData ==
    ((\/ CalledFn("get_home_id") /\ call.outcome.body \in MalformedHomeBodies
      \/ CalledFn("get_current_and_upcoming_prices")
            /\ call.outcome.body \in MalformedPriceBodies
      \/ CalledFn("get_historical_consumption")
            /\ call.outcome.body \in MalformedConsumptionBodies)
     /\ Received)
    => (call.res.exc = "none" /\ Absent(call.res.ret))

FailedRequest ==
    \/ call.outcome.status = "network_error"
    \/ call.outcome.status = "response" /\ raises_for_status(call.outcome.code)

(* C4, as amended: a call whose request ends in a 4xx or 5xx status or in a *)
(* network failure returns None or an empty table, and raises nothing       *)
C4_HttpFailureIsAbsent ==
    (pc = "called" /\ FailedRequest)
    => (call.res.exc = "none" /\ Absent(call.res.ret))

C4_Witness ==
    /\ CalledFn("get_historical_consumption")
    /\ call.outcome.status = "network_error"
    /\ call.res.exc = "none"
    /\ call.res.ret = EmptyFrame
    /\ requests = <<"consumption">>

(* C4, as claimed: a call whose request ends in any non-2xx status or in a  *)
(* network failure returns None or an empty table, and raises nothing       *)
C4_NonSuccessIsAbsent ==
    (pc = "called" /\ call.fn # "none"
        /\ (\/ call.outcome.status = "network_error"
            \/ call.outcome.status = "response" /\ ~Received))
    => (call.res.exc = "none" /\ Absent(call.res.ret))

(* C5: in the energy script, when the home lookup returns None the script   *)
(* ends with no exception at the top level and sends no later query         *)
C5_AbsentHomeHaltsQuietly ==
    my_home = None
    => (exc = "none" /\ pc # "crashed" /\ \A i \in DOMAIN requests : requests[i] = "homes")

(* C6: in both scripts a CSV file is written only for a non-empty table     *)
C6_NoCsvForEmptyTable ==
    \A i \in DOMAIN writes : ~empty(writes[i].table)

(* C7: with the token unset every energy operation raises the               *)
(* configuration error, and no request was sent before it                   *)
C7_UnsetTokenFailsBeforeRequest ==
    /\ (pc = "called" /\ call.fn \in EnergyFns /\ TIBER_TOKEN = None)
        => (call.res.exc = "ValueError" /\ requests = <<>>)
    /\ (pc = "crashed" /\ TIBER_TOKEN = None)
        => (exc = "ValueError" /\ requests = <<>>)

C7_Witness ==
    /\ CalledFn("get_live_measurement")
    /\ TIBER_TOKEN = None
    /\ call.res.exc = "ValueError"
    /\ requests = <<>>

(* the table of compass buckets, in tenths of a degree: [lo, hi) -> label *)
Buckets ==
    {[lo |-> 3375, hi |-> 3600, label |-> "N"], [lo |-> 0, hi |-> 225, label |-> "N"],
     [lo |-> 225, hi |-> 675, label |-> "NE"], [lo |-> 675, hi |-> 1125, label |-> "E"],
     [lo |-> 1125, hi |-> 1575, label |-> "SE"], [lo |-> 1575, hi |-> 2025, label |-> "S"],
     [lo |-> 2025, hi |-> 2475, label |-> "SW"], [lo |-> 2475, hi |-> 2925, label |-> "W"],
     [lo |-> 2925, hi |-> 3375, label |-> "NW"]}

(* C8: every row's wind_direction_cardinal is the label of the bucket its  *)
(* bearing in [0, 360) falls in, lower edges inclusive, upper exclusive     *)
C8_CardinalMatchesBucketTable ==
    (CalledFn("get_hourly_forecast") /\ Received)
    => \A i \in DOMAIN call.res.ret.rows :
        LET row == call.res.ret.rows[i]
            d == row.wind_direction_10m
        IN  (0 <= d /\ d < 3600)
            => /\ \E b \in Buckets : b.lo <= d /\ d < b.hi
               /\ \A b \in Buckets :
                    (b.lo <= d /\ d < b.hi) => row.wind_direction_cardinal = b.label

C8_Witness ==
    /\ CalledFn("get_hourly_forecast")
    /\ Received
    /\ Len(call.res.ret.rows) = 1
    /\ call.res.ret.rows[1].wind_direction_10m = 3375
    /\ call.res.ret.rows[1].wind_direction_cardinal = "N"

(* the home listings of an account: every home with its id and address *)
ValidHomeBodies ==
    {Body(Data(HomesViewer(List(l))), Missing) : l \in SeqsUpTo(ValidHomes, MaxHomes)}

(* C9: on a valid home listing get_home_id returns (id, address1) of the   *)
(* first home, whatever the other homes are, and None for zero homes        *)
C9_FirstHomeOrAbsent ==
    (CalledFn("get_home_id") /\ Received /\ call.outcome.body \in ValidHomeBodies)
    => LET homes == call.outcome.body.data.viewer.homes.items
       IN  /\ call.res.exc = "none"
           /\ (homes = <<>> => call.res.ret = None)
           /\ (homes # <<>> =>
                call.res.ret = [kind |-> "tuple", id |-> homes[1].id,
                                address1 |-> homes[1].address.address1])

C9_Witness ==
    /\ CalledFn("get_home_id")
    /\ Received
    /\ call.outcome.body \in ValidHomeBodies
    /\ Len(call.outcome.body.data.viewer.homes.items) = 2
    /\ call.outcome.body.data.viewer.homes.items[2].id = Str("h1")
    /\ call.res.ret = [kind |-> "tuple", id |-> Str("h2"), address1 |-> Str("Side St")]

FileAt(path) == IF path \in DOMAIN files THEN files[path] ELSE to_csv(EmptyFrame)

(* C10: in the energy script the price write to historical_consumption.csv *)
(* comes before the consumption write to the same path, so once a non-empty *)
(* consumption table is fetched the file holds that table and not the price *)
(* table, whether or not the price table was written                        *)
C10_ConsumptionOverwritesPrices ==
    /\ \A i, j \in DOMAIN writes :
        (writes[i].frame = "price_df" /\ writes[j].frame = "consumption_df")
        => (i < j /\ writes[i].path = writes[j].path
            /\ writes[i].path = historical_consumption_csv)
    /\ (consumption_df # Unbound /\ ~empty(consumption_df))
        => /\ FileAt(historical_consumption_csv) = to_csv(consumption_df)
           /\ FileAt(historical_consumption_csv) # to_csv(price_df)
           /\ \A k \in DOMAIN FileAt(historical_consumption_csv).lines :
                \A i \in DOMAIN price_df.rows :
                    FileAt(historical_consumption_csv).lines[k].row # price_df.rows[i]

C10_Witness ==
    /\ pc = "done"
    /\ price_df # Unbound
    /\ consumption_df # Unbound
    /\ ~empty(price_df)
    /\ ~empty(consumption_df)
    /\ Len(writes) = 2
    /\ writes[1].frame = "price_df"
    /\ FileAt(historical_consumption_csv) = to_csv(consumption_df)

====
